---- MODULE Spec2Model ----
(***************************************************************************)
(* PickFlix (src/Pickflix.py): the SQLite credential and watchlist stores   *)
(* and the Streamlit session state that drives them.                        *)
(*                                                                          *)
(* Five specifications over the same variables:                             *)
(*   SpecCred     two connections calling register_user /                   *)
(*                authenticate_user, one SQLite step (execute, commit,      *)
(*                close) per transition;                                    *)
(*   SpecWatch    two connections calling add_to_watchlist /                *)
(*                remove_from_watchlist / get_watchlist, same granularity;  *)
(*   Spec         the Streamlit script: one transition per script run of a  *)
(*                browser session (a widget interaction and the rerun it    *)
(*                causes), each store call taken whole;                     *)
(*   SpecAccounts the account forms of the script, submitted with every     *)
(*                text, the empty one included;                             *)
(*   SpecSessions the script run by two browser sessions, interleaved.      *)
(* A writer that finds the database locked waits (sqlite3's busy timeout); *)
(* the timeout is taken not to expire.                                      *)
(***************************************************************************)
EXTENDS Integers, Sequences, FiniteSets, TLC

VARIABLES
    users,            \* table users: sequence of rows in rowid order
    watchlist,        \* table watchlist: set of rows, each with its id
    sqlite_sequence,  \* AUTOINCREMENT high-water mark of table watchlist
    writer,           \* connection holding the database write lock
    conn,             \* per connection: the store call in progress / last made
    session,          \* per browser session: st.session_state
    message,          \* what the latest script run reported (st.success, st.error)
    passes            \* the passes over the script of the latest run

vars ==
    <<users, watchlist, sqlite_sequence, writer, conn, session, message, passes>>

----------------------------------------------------------------------------
(* Value sets the inputs are drawn from, and bounds.                        *)

Usernames == {"alice", "bob"}
Passwords == {"secret", "wrong"}
MovieIds == {1, 2, 3}
\* (username, movie_id) pairs the watchlist calls are made for
Pairs == {<<"alice", 1>>, <<"alice", 2>>, <<"alice", 3>>, <<"bob", 1>>}
None == "None"
\* (movie_id, title, year, poster_url) arguments of add_to_watchlist: what the
\* catalog said of the movie when the caller looked it up.  Movie 1 was
\* looked up twice, with different answers.
\* (Texts that the code slices are sequences of characters; year is one.)
Details ==
    {<<1, "Fight Club", <<"1", "9", "9", "9">>, "https://image.tmdb.org/t/p/w500/fc.jpg">>,
     <<1, "Fight Club (1999)", <<>>, None>>,
     <<2, "Se7en", <<"1", "9", "9", "5">>, None>>,
     <<3, "Zodiac", <<>>, "https://image.tmdb.org/t/p/w500/z.jpg">>}
Connections == {"c1", "c2"}
NoConn == "none"
\* Browser sessions: one drives the application in Spec, both in SpecSessions.
Sessions == {"s1", "s2"}

AddInputs == {a \in Usernames \X Details : <<a[1], a[2][1]>> \in Pairs}

\* Cap on the AUTOINCREMENT counter: no add is started once it is reached.
MaxId == 3

Max(a, b) == IF a >= b THEN a ELSE b
Min(a, b) == IF a <= b THEN a ELSE b

----------------------------------------------------------------------------
(* Schema (init_db) and the SQL statements, as operators on table values.   *)

\* users.username TEXT PRIMARY KEY: an INSERT whose key is already in the
\* table raises sqlite3.IntegrityError.
\* (Faulty variants, used to test that a property depends on the constraint:
\* no key at all; a key on the pair of columns.)
UsersKeyUnchecked(rows, username, password) == FALSE
UsersKeyOnBothColumns(rows, username, password) ==
    \E i \in 1..Len(rows) :
        rows[i].username = username /\ rows[i].password = password
UsersPrimaryKeyViolated(rows, username, password) ==
    \E i \in 1..Len(rows) : rows[i].username = username

\* INSERT INTO users VALUES (?,?)
\* (Faulty variant: the new row takes the place of the stored ones.)
InsertUserOverwriting(rows, username, password) ==
    <<[username |-> username, password |-> password]>>
InsertUser(rows, username, password) ==
    Append(rows, [username |-> username, password |-> password])

\* SELECT * FROM users WHERE username=? AND password=? ... fetchone() is not None
\* (Faulty variant: the password is not compared.)
SelectUserByNameOnly(rows, username, password) ==
    \E i \in 1..Len(rows) : rows[i].username = username
SelectUser(rows, username, password) ==
    \E i \in 1..Len(rows) :
        rows[i].username = username /\ rows[i].password = password

\* UNIQUE(username, movie_id) on watchlist.  (FOREIGN KEY(username) is
\* declared, but no connection sets PRAGMA foreign_keys, so SQLite does not
\* enforce it: an INSERT for a username without a users row succeeds.)
\* (Faulty variants: no constraint; UNIQUE(movie_id).)
WatchlistUniqueMissing(rows, username, movie_id) == FALSE
WatchlistUniqueOnMovieOnly(rows, username, movie_id) ==
    \E r \in rows : r.movie_id = movie_id
WatchlistUniqueViolated(rows, username, movie_id) ==
    \E r \in rows : r.username = username /\ r.movie_id = movie_id

\* id INTEGER PRIMARY KEY AUTOINCREMENT: one more than the largest id the
\* table has ever held.
MaxRowId(rows) ==
    IF rows = {} THEN 0
    ELSE (CHOOSE r \in rows : \A q \in rows : q.id <= r.id).id
NextRowId(rows, seq) == Max(seq, MaxRowId(rows)) + 1

\* DELETE FROM watchlist WHERE username=? AND movie_id=?
\* (Faulty variant: WHERE movie_id=?.)
DeleteByMovieOnly(rows, username, movie_id) ==
    {r \in rows : r.movie_id = movie_id}
DeleteMatching(rows, username, movie_id) ==
    {r \in rows : r.username = username /\ r.movie_id = movie_id}

\* ORDER BY id DESC
\* (Faulty variant: ORDER BY id ASC.)
RECURSIVE OrderByIdAsc(_)
OrderByIdAsc(rows) ==
    IF rows = {} THEN <<>>
    ELSE LET low == CHOOSE r \in rows : \A q \in rows : q.id >= r.id
         IN  <<low>> \o OrderByIdAsc(rows \ {low})

RECURSIVE OrderByIdDesc(_)
OrderByIdDesc(rows) ==
    IF rows = {} THEN <<>>
    ELSE LET top == CHOOSE r \in rows : \A q \in rows : q.id <= r.id
         IN  <<top>> \o OrderByIdDesc(rows \ {top})

\* SELECT movie_id, title, year, poster_url FROM watchlist WHERE username=?
\* ORDER BY id DESC ... fetchall()
SelectWatchlist(rows, username) ==
    LET mine == OrderByIdDesc({r \in rows : r.username = username})
    IN  [i \in 1..Len(mine) |->
            <<mine[i].movie_id, mine[i].title, mine[i].year, mine[i].poster_url>>]

----------------------------------------------------------------------------
(* Connections.  Each store function opens its own connection            *)
(* (sqlite3.connect inside the call), runs one statement, and for a write  *)
(* commits.  Python's sqlite3 opens a transaction before INSERT/DELETE, so  *)
(* the statement takes SQLite's write lock, which is held until the commit  *)
(* or, after an IntegrityError, until closing() closes the connection.  A   *)
(* second writer waits in SQLite's busy handler meanwhile.  Nothing else    *)
(* can change the tables while the lock is held, so the pending statement's *)
(* effect is applied to the tables at the commit step.                      *)
(*                                                                          *)
(* Fields race and repeat are history: race marks two calls of the same     *)
(* insert for the same absent key that were in progress together; repeat    *)
(* marks a call that repeats this connection's previous call (same          *)
(* operation and key), that previous call having returned true.             *)

IdleConn ==
    [pc |-> "idle", op |-> "none", username |-> "", password |-> "",
     movie_id |-> 0, title |-> "", year |-> <<>>, poster_url |-> None,
     rowid |-> 0, rowcount |-> 0, ret |-> FALSE, result |-> <<>>,
     race |-> FALSE, repeat |-> FALSE]

\* The call has returned: what is kept of it is the operation, its key, the
\* value returned and the history flags.
Returned(k, ret, result) ==
    [IdleConn EXCEPT !.pc = "done", !.op = k.op, !.username = k.username,
                     !.movie_id = k.movie_id, !.ret = ret, !.result = result,
                     !.race = k.race, !.repeat = k.repeat]

Ready(c) == conn[c].pc \in {"idle", "done"}
Other(c) == CHOOSE d \in Connections : d # c

Repeats(c, op, username, movie_id) ==
    /\ conn[c].pc = "done"
    /\ conn[c].op = op
    /\ conn[c].username = username
    /\ conn[c].movie_id = movie_id
    /\ conn[c].ret

\* The other connection is part-way through the same insert for the same key
\* and the key is not in the table.
Races(c, op, username, movie_id, absent) ==
    LET d == Other(c)
    IN  /\ absent
        /\ conn[d].pc \in {"called", "executed"}
        /\ conn[d].op = op
        /\ conn[d].username = username
        /\ conn[d].movie_id = movie_id

Begin(c, call, absent) ==
    LET racing == Races(c, call.op, call.username, call.movie_id, absent)
        mine == [call EXCEPT !.pc = "called",
                             !.race = racing,
                             !.repeat = Repeats(c, call.op, call.username,
                                                call.movie_id)]
    IN  conn' = [d \in Connections |->
                    IF d = c THEN mine
                    ELSE IF racing THEN [conn[d] EXCEPT !.race = TRUE]
                    ELSE conn[d]]

----------------------------------------------------------------------------
(* register_user(username, password)                                        *)

register_user_call(c, username, password) ==
    /\ Ready(c)
    /\ Begin(c, [IdleConn EXCEPT !.op = "register", !.username = username,
                                 !.password = password],
             \A i \in 1..Len(users) : users[i].username # username)
    /\ UNCHANGED <<users, watchlist, sqlite_sequence, writer>>
    /\ UNCHANGED <<session, message, passes>>

\* cursor.execute('INSERT INTO users VALUES (?,?)', ...)
register_user_execute(c) ==
    /\ conn[c].pc = "called" /\ conn[c].op = "register"
    /\ writer = NoConn
    /\ writer' = c
    /\ conn' = [conn EXCEPT ![c].pc =
                   IF UsersPrimaryKeyViolated(users, conn[c].username,
                                              conn[c].password)
                   THEN "raised" ELSE "executed"]
    /\ UNCHANGED <<users, watchlist, sqlite_sequence>>
    /\ UNCHANGED <<session, message, passes>>

\* conn.commit(); return True
register_user_commit(c) ==
    /\ conn[c].pc = "executed" /\ conn[c].op = "register"
    /\ writer = c
    /\ users' = InsertUser(users, conn[c].username, conn[c].password)
    /\ writer' = NoConn
    /\ conn' = [conn EXCEPT ![c] = Returned(conn[c], TRUE, <<>>)]
    /\ UNCHANGED <<watchlist, sqlite_sequence>>
    /\ UNCHANGED <<session, message, passes>>

\* except sqlite3.IntegrityError: return False (closing() rolls back)
register_user_except(c) ==
    /\ conn[c].pc = "raised" /\ conn[c].op = "register"
    /\ writer = c
    /\ writer' = NoConn
    /\ conn' = [conn EXCEPT ![c] = Returned(conn[c], FALSE, <<>>)]
    /\ UNCHANGED <<users, watchlist, sqlite_sequence>>
    /\ UNCHANGED <<session, message, passes>>

----------------------------------------------------------------------------
(* authenticate_user(username, password)                                    *)

authenticate_user_call(c, username, password) ==
    /\ Ready(c)
    /\ Begin(c, [IdleConn EXCEPT !.op = "authenticate", !.username = username,
                                 !.password = password], FALSE)
    /\ UNCHANGED <<users, watchlist, sqlite_sequence, writer>>
    /\ UNCHANGED <<session, message, passes>>

\* cursor.execute('SELECT ...'); return cursor.fetchone() is not None
authenticate_user_select(c) ==
    /\ conn[c].pc = "called" /\ conn[c].op = "authenticate"
    /\ conn' = [conn EXCEPT ![c] =
                   Returned(conn[c],
                            SelectUser(users, conn[c].username, conn[c].password),
                            <<>>)]
    /\ UNCHANGED <<users, watchlist, sqlite_sequence, writer>>
    /\ UNCHANGED <<session, message, passes>>

----------------------------------------------------------------------------
(* add_to_watchlist(username, movie_id, title, year, poster_url)            *)

AddsInProgress ==
    Cardinality({c \in Connections :
                    conn[c].op = "add" /\ conn[c].pc \in {"called", "executed"}})

add_to_watchlist_call(c, username, det) ==
    /\ Ready(c)
    /\ sqlite_sequence + AddsInProgress < MaxId
    /\ Begin(c, [IdleConn EXCEPT !.op = "add", !.username = username,
                                 !.movie_id = det[1], !.title = det[2],
                                 !.year = det[3], !.poster_url = det[4]],
             \A r \in watchlist :
                 ~(r.username = username /\ r.movie_id = det[1]))
    /\ UNCHANGED <<users, watchlist, sqlite_sequence, writer>>
    /\ UNCHANGED <<session, message, passes>>

\* cursor.execute('INSERT INTO watchlist (username, movie_id, title, year,
\* poster_url) VALUES (?, ?, ?, ?, ?)', ...)
add_to_watchlist_execute(c) ==
    /\ conn[c].pc = "called" /\ conn[c].op = "add"
    /\ writer = NoConn
    /\ writer' = c
    /\ conn' = [conn EXCEPT
                   ![c].pc = IF WatchlistUniqueViolated(watchlist,
                                    conn[c].username, conn[c].movie_id)
                             THEN "raised" ELSE "executed",
                   ![c].rowid = NextRowId(watchlist, sqlite_sequence)]
    /\ UNCHANGED <<users, watchlist, sqlite_sequence>>
    /\ UNCHANGED <<session, message, passes>>

WatchlistRow(k) ==
    [id |-> k.rowid, username |-> k.username, movie_id |-> k.movie_id,
     title |-> k.title, year |-> k.year, poster_url |-> k.poster_url]

\* conn.commit(); return True
add_to_watchlist_commit(c) ==
    /\ conn[c].pc = "executed" /\ conn[c].op = "add"
    /\ writer = c
    /\ watchlist' = watchlist \cup {WatchlistRow(conn[c])}
    /\ sqlite_sequence' = conn[c].rowid
    /\ writer' = NoConn
    /\ conn' = [conn EXCEPT ![c] = Returned(conn[c], TRUE, <<>>)]
    /\ UNCHANGED users
    /\ UNCHANGED <<session, message, passes>>

\* except sqlite3.IntegrityError: return False (closing() rolls back)
add_to_watchlist_except(c) ==
    /\ conn[c].pc = "raised" /\ conn[c].op = "add"
    /\ writer = c
    /\ writer' = NoConn
    /\ conn' = [conn EXCEPT ![c] = Returned(conn[c], FALSE, <<>>)]
    /\ UNCHANGED <<users, watchlist, sqlite_sequence>>
    /\ UNCHANGED <<session, message, passes>>

----------------------------------------------------------------------------
(* remove_from_watchlist(username, movie_id)                                *)

remove_from_watchlist_call(c, username, movie_id) ==
    /\ Ready(c)
    /\ Begin(c, [IdleConn EXCEPT !.op = "remove", !.username = username,
                                 !.movie_id = movie_id], FALSE)
    /\ UNCHANGED <<users, watchlist, sqlite_sequence, writer>>
    /\ UNCHANGED <<session, message, passes>>

\* cursor.execute('DELETE FROM watchlist WHERE username=? AND movie_id=?', ...)
remove_from_watchlist_execute(c) ==
    /\ conn[c].pc = "called" /\ conn[c].op = "remove"
    /\ writer = NoConn
    /\ writer' = c
    /\ conn' = [conn EXCEPT
                   ![c].pc = "executed",
                   ![c].rowcount = Cardinality(DeleteMatching(watchlist,
                                       conn[c].username, conn[c].movie_id))]
    /\ UNCHANGED <<users, watchlist, sqlite_sequence>>
    /\ UNCHANGED <<session, message, passes>>

\* conn.commit(); return cursor.rowcount > 0
remove_from_watchlist_commit(c) ==
    /\ conn[c].pc = "executed" /\ conn[c].op = "remove"
    /\ writer = c
    /\ watchlist' = watchlist \ DeleteMatching(watchlist, conn[c].username,
                                               conn[c].movie_id)
    /\ writer' = NoConn
    /\ conn' = [conn EXCEPT ![c] = Returned(conn[c], conn[c].rowcount > 0, <<>>)]
    /\ UNCHANGED <<users, sqlite_sequence>>
    /\ UNCHANGED <<session, message, passes>>

----------------------------------------------------------------------------
(* get_watchlist(username)                                                  *)

get_watchlist_call(c, username) ==
    /\ Ready(c)
    /\ Begin(c, [IdleConn EXCEPT !.op = "list", !.username = username], FALSE)
    /\ UNCHANGED <<users, watchlist, sqlite_sequence, writer>>
    /\ UNCHANGED <<session, message, passes>>

\* cursor.execute('SELECT ...'); return cursor.fetchall()
get_watchlist_select(c) ==
    /\ conn[c].pc = "called" /\ conn[c].op = "list"
    /\ conn' = [conn EXCEPT ![c] =
                   Returned(conn[c], FALSE,
                            SelectWatchlist(watchlist, conn[c].username))]
    /\ UNCHANGED <<users, watchlist, sqlite_sequence, writer>>
    /\ UNCHANGED <<session, message, passes>>

----------------------------------------------------------------------------
(* The store functions taken whole (execute, commit, return in one step),  *)
(* as a script run calls them.                                              *)

register_user(rows, username, password) ==
    IF UsersPrimaryKeyViolated(rows, username, password)
    THEN [ret |-> FALSE, users |-> rows]
    ELSE [ret |-> TRUE, users |-> InsertUser(rows, username, password)]

\* (Faulty variant: any credentials pass.)
authenticate_user_unchecked(rows, username, password) == TRUE
authenticate_user(rows, username, password) ==
    SelectUser(rows, username, password)

add_to_watchlist(rows, seq, username, movie_id, title, year, poster_url) ==
    IF WatchlistUniqueViolated(rows, username, movie_id)
    THEN [ret |-> FALSE, watchlist |-> rows, sqlite_sequence |-> seq]
    ELSE LET id == NextRowId(rows, seq)
             row == WatchlistRow([rowid |-> id, username |-> username,
                                  movie_id |-> movie_id, title |-> title,
                                  year |-> year, poster_url |-> poster_url])
         IN  [ret |-> TRUE, watchlist |-> rows \cup {row},
              sqlite_sequence |-> id]

remove_from_watchlist(rows, username, movie_id) ==
    LET gone == DeleteMatching(rows, username, movie_id)
    IN  [ret |-> Cardinality(gone) > 0, watchlist |-> rows \ gone]

get_watchlist(rows, username) == SelectWatchlist(rows, username)

----------------------------------------------------------------------------
(* The catalog (TMDB), as the answers it gives.                             *)

FightClub ==
    [id |-> 1, title |-> "Fight Club",
     release_date |-> <<"1", "9", "9", "9", "-", "1", "0", "-", "1", "5">>,
     overview |-> "An insomniac office worker crosses paths with a soap maker."]
\* the same catalog id after an edit of the catalog: no release date
FightClubEdited ==
    [id |-> 1, title |-> "Fight Club (1999)", release_date |-> <<>>,
     overview |-> ""]
\* an entry without release_date and overview keys
Se7en == [id |-> 2, title |-> "Se7en"]

\* requests.get(url) raised instead of returning a response (no route to the
\* host, name resolution, connection reset): none of the three catalog
\* functions has a try/except around the call, and the call has no timeout.
ConnectionError == [exception |-> "ConnectionError"]
Raises(response) == "exception" \in DOMAIN response

\* /search/movie: the status and the "results" of the JSON body
SearchFound ==
    [status_code |-> 200,
     results |-> <<[id |-> 2, title |-> "Se7en"],
                   [id |-> 1, title |-> "Fight Club", popularity |-> 61]>>]
SearchNone == [status_code |-> 200, results |-> <<>>]
SearchFailed == [status_code |-> 503, results |-> <<>>]

\* /movie/{id}/similar: the status and the "results" of the JSON body
TwoSimilar == [status_code |-> 200, results |-> <<FightClub, Se7en>>]
SixSimilar ==
    [status_code |-> 200,
     results |-> <<FightClubEdited, Se7en, FightClubEdited, Se7en,
                   FightClubEdited, Se7en>>]
NoSimilar == [status_code |-> 200, results |-> <<>>]
SimilarFailed == [status_code |-> 404, results |-> <<>>]

\* /movie/{id}: the status and the "poster_path" of the JSON body, with the
\* catalog "up", "down" (answering with an error status) or "unreachable"
PosterResponse(net, movie_id) ==
    IF net = "unreachable" THEN ConnectionError
    ELSE IF net = "down" THEN [status_code |-> 500, poster_path |-> None]
    ELSE IF movie_id = 1 THEN [status_code |-> 200, poster_path |-> "fc.jpg"]
    ELSE [status_code |-> 200, poster_path |-> None]

\* The catalog exchanges of one run with a search query typed and 'Show
\* Recommendations' pressed: the answer to the search call, the answer to
\* the similar call, and the state of the catalog for the poster calls.
CatalogAnswers ==
    {<<SearchFound, TwoSimilar, "up">>, <<SearchFound, TwoSimilar, "down">>,
     <<SearchFound, SixSimilar, "up">>, <<SearchFound, NoSimilar, "up">>,
     <<SearchFound, SimilarFailed, "up">>,
     <<SearchFound, ConnectionError, "up">>,
     <<SearchFound, TwoSimilar, "unreachable">>,
     <<SearchNone, TwoSimilar, "up">>, <<SearchFailed, TwoSimilar, "up">>,
     <<ConnectionError, TwoSimilar, "up">>}

\* Credentials typed into the registration and the login form.
RegisterInputs ==
    {<<"alice", "secret">>, <<"bob", "secret">>}
LoginInputs == Usernames \X Passwords

RecommendationLimit == 5
\* cols = st.columns(5)
DisplayColumns == 5

\* x.get("popularity", 0)
popularity(x) == IF "popularity" \in DOMAIN x THEN x.popularity ELSE 0

\* sorted(results, key=lambda x: x.get("popularity", 0), reverse=True):
\* entries of equal popularity keep their order
RECURSIVE SortByPopularity(_)
SortByPopularity(results) ==
    IF results = <<>> THEN <<>>
    ELSE LET x == Head(results)
             rest == SortByPopularity(Tail(results))
             k == Cardinality({i \in 1..Len(rest) :
                                  popularity(rest[i]) > popularity(x)})
         IN  SubSeq(rest, 1, k) \o <<x>> \o SubSeq(rest, k + 1, Len(rest))

\* For a requests.get that returned; [] unless the status is 200.
search_movies(response) ==
    IF response.status_code = 200 THEN SortByPopularity(response.results)
    ELSE <<>>

\* (Faulty variant: the whole result list, not its first five entries.)
fetch_similar_movies_unsliced(response) ==
    IF response.status_code = 200 THEN response.results ELSE <<>>
\* response.json().get("results", [])[:5], [] unless the status is 200
fetch_similar_movies(response) ==
    IF response.status_code = 200
    THEN SubSeq(response.results, 1,
                Min(RecommendationLimit, Len(response.results)))
    ELSE <<>>

fetch_poster(response) ==
    IF response.status_code = 200 /\ response.poster_path # None
    THEN "https://image.tmdb.org/t/p/w500/" \o response.poster_path
    ELSE None

\* recommend(movie_id) does not return: the similar call raised, or the
\* poster call of one of the similar movies did
recommend_raises(response, net) ==
    \/ Raises(response)
    \/ \E i \in 1..Len(fetch_similar_movies(response)) :
          Raises(PosterResponse(net, fetch_similar_movies(response)[i].id))

\* (names, posters, descriptions, similar_movies)
recommend(response, net) ==
    LET similar_movies == fetch_similar_movies(response)
        n == Len(similar_movies)
    IN  [names |-> [i \in 1..n |-> similar_movies[i].title],
         posters |-> [i \in 1..n |->
                        fetch_poster(PosterResponse(net, similar_movies[i].id))],
         descriptions |-> [i \in 1..n |->
                             IF "overview" \in DOMAIN similar_movies[i]
                             THEN similar_movies[i].overview
                             ELSE "No description available"],
         similar_movies |-> similar_movies]

\* movie_data.get('release_date', '')[:4] if movie_data.get('release_date') else ''
release_year(movie_data) ==
    IF "release_date" \in DOMAIN movie_data /\ movie_data.release_date # <<>>
    THEN SubSeq(movie_data.release_date, 1, Min(4, Len(movie_data.release_date)))
    ELSE <<>>

----------------------------------------------------------------------------
(* st.session_state of a browser session, and the script run.  A            *)
(* transition is one run of the script for one session, started by one      *)
(* widget (a button or a form submit), together with the rerun that         *)
(* st.rerun() starts.  posters, names and descriptions are keys the state   *)
(* has only once recommendations were shown.  A widget can be used when the *)
(* previous run drew it and this run reaches it.  The search call is made   *)
(* in the run that asks for recommendations; the other runs of a signed-in  *)
(* session are taken with the search box empty.                             *)

\* The state the first run of a session leaves (lines 97-113).
FirstRun ==
    [logged_in |-> FALSE, username |-> None, show_login |-> TRUE,
     show_register |-> FALSE, similar_movies |-> <<>>,
     show_watchlist |-> FALSE]

\* if not logged_in: if not show_register and not show_login: show_login = True
\* (Faulty variant: no default.)
ShowLoginNotDefaulted(ss) == ss
ShowLoginByDefault(ss) ==
    IF ~ss.logged_in /\ ~ss.show_register /\ ~ss.show_login
    THEN [ss EXCEPT !.show_login = TRUE]
    ELSE ss

\* What a pass over the script draws, by the session state at that line.
RegisterForm(ss) ==
    IF ss.show_register /\ ~ss.logged_in THEN {"Register Form"} ELSE {}
LoginForm(ss) ==
    IF ss.show_login /\ ~ss.logged_in THEN {"Login Form"} ELSE {}
WatchlistDisplay(ss) ==
    IF ss.show_watchlist THEN {"Your Watchlist"} ELSE {}
RecommendationsDisplay(ss) ==
    IF ss.similar_movies # <<>> THEN {"Recommendations"} ELSE {}
MainContent(ss) ==
    IF ss.logged_in
    THEN WatchlistDisplay(ss) \cup {"Movie Search"}
                              \cup RecommendationsDisplay(ss)
    ELSE {"Please register or sign in"}

\* a store call of the script: the function and the username argument
Call(op, username) == [op |-> op, username |-> username]
\* watchlist = get_watchlist(st.session_state.username)
WatchlistCalls(ss) ==
    IF ss.logged_in /\ ss.show_watchlist
    THEN <<Call("get_watchlist", ss.username)>> ELSE <<>>

\* A pass that st.rerun() or an exception stopped: the session state it
\* started with, what it had drawn and the store calls it had made.
StoppedPass(start, shown, calls) ==
    [logged_in |-> start.logged_in, username |-> start.username,
     shown |-> shown, calls |-> calls]
\* A pass that reached the end of the script, with the session state at the
\* registration form and the session state from the login form on; calls
\* are the store calls made after the watchlist display's.
CompletePass(atRegister, atLogin, calls) ==
    [logged_in |-> atRegister.logged_in, username |-> atRegister.username,
     shown |-> RegisterForm(atRegister) \cup LoginForm(atLogin)
                                        \cup MainContent(atLogin),
     calls |-> WatchlistCalls(atLogin) \o calls]
\* A pass that an uncaught exception of a catalog call stopped (lines 248,
\* 263): Streamlit shows the exception in place of the rest of the page.
ExceptionPass(ss) ==
    StoppedPass(ss, WatchlistDisplay(ss) \cup {"Movie Search", "ConnectionError"},
                WatchlistCalls(ss))

\* (Faulty variant: the username stays.)
sign_out_keeps_username(s) ==
    LET ss == ShowLoginByDefault(session[s])
        new == ShowLoginByDefault([ss EXCEPT !.logged_in = FALSE])
    IN  /\ ss.logged_in
        /\ session' = [session EXCEPT ![s] = new]
        /\ message' = ""
        /\ passes' = <<StoppedPass(ss, {}, <<>>), CompletePass(new, new, <<>>)>>
        /\ UNCHANGED <<users, watchlist, sqlite_sequence, writer, conn>>

\* if st.button("📺 Watchlist"): show_watchlist = not show_watchlist
watchlist_button(s) ==
    LET ss == ShowLoginByDefault(session[s])
        new == [ss EXCEPT !.show_watchlist = ~ss.show_watchlist]
    IN  /\ ss.logged_in
        /\ session' = [session EXCEPT ![s] = new]
        /\ message' = ""
        /\ passes' = <<CompletePass(new, new, <<>>)>>
        /\ UNCHANGED <<users, watchlist, sqlite_sequence, writer, conn>>

\* if st.button("Sign Out"): logged_in = False; username = None; st.rerun()
sign_out(s) ==
    LET ss == ShowLoginByDefault(session[s])
        new == ShowLoginByDefault([ss EXCEPT !.logged_in = FALSE,
                                             !.username = None])
    IN  /\ ss.logged_in
        /\ session' = [session EXCEPT ![s] = new]
        /\ message' = ""
        /\ passes' = <<StoppedPass(ss, {}, <<>>), CompletePass(new, new, <<>>)>>
        /\ UNCHANGED <<users, watchlist, sqlite_sequence, writer, conn>>

\* if st.button("Register"): show_register = True
register_button(s) ==
    LET ss == ShowLoginByDefault(session[s])
        new == [ss EXCEPT !.show_register = TRUE]
    IN  /\ ~ss.logged_in
        /\ session' = [session EXCEPT ![s] = new]
        /\ message' = ""
        /\ passes' = <<CompletePass(new, new, <<>>)>>
        /\ UNCHANGED <<users, watchlist, sqlite_sequence, writer, conn>>

\* if st.button("Sign In"): show_login = True
sign_in_button(s) ==
    LET ss == ShowLoginByDefault(session[s])
        new == [ss EXCEPT !.show_login = TRUE]
    IN  /\ ~ss.logged_in
        /\ session' = [session EXCEPT ![s] = new]
        /\ message' = ""
        /\ passes' = <<CompletePass(new, new, <<>>)>>
        /\ UNCHANGED <<users, watchlist, sqlite_sequence, writer, conn>>

\* Registration form: if st.form_submit_button("Create Account"): ...
\* The form is drawn before show_register is cleared.
create_account(s, new_username, new_password) ==
    LET ss == ShowLoginByDefault(session[s])
        r == register_user(users, new_username, new_password)
        new == IF r.ret THEN [ss EXCEPT !.show_register = FALSE] ELSE ss
    IN  /\ ss.show_register /\ ~ss.logged_in
        /\ users' = r.users
        /\ session' = [session EXCEPT ![s] = new]
        /\ message' = IF r.ret THEN "Account created! You can now login."
                       ELSE "Username already exists!"
        /\ passes' = <<CompletePass(ss, new, <<>>)>>
        /\ UNCHANGED <<watchlist, sqlite_sequence, writer, conn>>

\* Login form: if st.form_submit_button("Login"): ...
\* st.error("Invalid credentials")
\* (Faulty variant: a message of its own for a username that is not stored.)
LoginFailureNamesUnknownUser(rows, username) ==
    IF \E i \in 1..Len(rows) : rows[i].username = username
    THEN "Invalid credentials" ELSE "Unknown username"
LoginFailureMessage(rows, username) == "Invalid credentials"
\* (Faulty variant: show_login is left set.)
login_outcome_keeps_show_login(rows, ss, username, password) ==
    IF authenticate_user(rows, username, password)
    THEN [ret |-> TRUE, msg |-> "",
          state |-> [ss EXCEPT !.logged_in = TRUE, !.username = username]]
    ELSE [ret |-> FALSE, msg |-> LoginFailureMessage(rows, username),
          state |-> ss]
login_outcome(rows, ss, username, password) ==
    IF authenticate_user(rows, username, password)
    THEN [ret |-> TRUE, msg |-> "",
          state |-> ShowLoginByDefault([ss EXCEPT !.logged_in = TRUE,
                                                  !.username = username,
                                                  !.show_login = FALSE])]
    ELSE [ret |-> FALSE, msg |-> LoginFailureMessage(rows, username),
          state |-> ss]

login(s, username, password) ==
    LET ss == ShowLoginByDefault(session[s])
        r == login_outcome(users, ss, username, password)
    IN  /\ session[s].show_login /\ ~ss.logged_in
        /\ session' = [session EXCEPT ![s] = r.state]
        /\ message' = r.msg
        /\ passes' =
             IF r.ret
             THEN <<StoppedPass(ss, RegisterForm(ss) \cup LoginForm(ss), <<>>),
                    CompletePass(r.state, r.state, <<>>)>>
             ELSE <<CompletePass(ss, ss, <<>>)>>
        /\ UNCHANGED <<users, watchlist, sqlite_sequence, writer, conn>>

\* Watchlist display: if st.button(f"Remove {title}", key=f"remove_{movie_id}")
remove_button(s, movie_id) ==
    LET ss == ShowLoginByDefault(session[s])
        listed == get_watchlist(watchlist, ss.username)
        r == remove_from_watchlist(watchlist, ss.username, movie_id)
        remove == Call("remove_from_watchlist", ss.username)
    IN  /\ ss.logged_in /\ ss.show_watchlist
        /\ \E i \in 1..Len(listed) : listed[i][1] = movie_id
        /\ watchlist' = r.watchlist
        /\ session' = [session EXCEPT ![s] = ss]
        /\ message' = IF r.ret THEN "" ELSE "Failed to remove movie"
        /\ passes' =
             IF r.ret
             THEN <<StoppedPass(ss, {"Your Watchlist"},
                                WatchlistCalls(ss) \o <<remove>>),
                    CompletePass(ss, ss, <<>>)>>
             ELSE <<CompletePass(ss, ss, <<remove>>)>>
        /\ UNCHANGED <<users, sqlite_sequence, writer, conn>>

\* if search_query: search_results = search_movies(search_query) ...
\* if st.button('Show Recommendations'): the four session fields are set
\* An exception of requests.get leaves the script at the call.
show_recommendations_outcome(ss, search, response, net) ==
    IF Raises(search)
    THEN [state |-> ss, msg |-> "ConnectionError",
          passes |-> <<ExceptionPass(ss)>>]
    ELSE IF search_movies(search) = <<>>
    THEN [state |-> ss, msg |-> "",
          passes |-> <<CompletePass(ss, ss, <<>>)>>]
    ELSE IF recommend_raises(response, net)
    THEN [state |-> ss, msg |-> "ConnectionError",
          passes |-> <<ExceptionPass(ss)>>]
    ELSE LET r == recommend(response, net)
             new == [posters |-> r.posters, names |-> r.names,
                     descriptions |-> r.descriptions]
                    @@ [ss EXCEPT !.similar_movies = r.similar_movies]
         IN  [state |-> new, msg |-> "",
              passes |-> <<CompletePass(new, new, <<>>)>>]

show_recommendations(s, search, response, net) ==
    LET ss == ShowLoginByDefault(session[s])
        r == show_recommendations_outcome(ss, search, response, net)
    IN  /\ ss.logged_in
        /\ session' = [session EXCEPT ![s] = r.state]
        /\ message' = r.msg
        /\ passes' = r.passes
        /\ UNCHANGED <<users, watchlist, sqlite_sequence, writer, conn>>

\* Recommendations display: if st.button("➕ Add to Watchlist", key=btn_key)
add_button(s, idx) ==
    LET ss == ShowLoginByDefault(session[s])
        movie_data == ss.similar_movies[idx]
        r == add_to_watchlist(watchlist, sqlite_sequence, ss.username,
                              movie_data.id, movie_data.title,
                              release_year(movie_data), ss.posters[idx])
    IN  /\ ss.logged_in
        /\ ss.similar_movies # <<>>
        /\ idx <= DisplayColumns /\ idx <= Len(ss.names)
        /\ sqlite_sequence < MaxId
        /\ watchlist' = r.watchlist
        /\ sqlite_sequence' = r.sqlite_sequence
        /\ session' = [session EXCEPT ![s] = ss]
        /\ message' = IF r.ret THEN "Added to watchlist!"
                       ELSE "Movie already in watchlist!"
        /\ passes' = <<CompletePass(ss, ss,
                                    <<Call("add_to_watchlist", ss.username)>>)>>
        /\ UNCHANGED <<users, writer, conn>>

----------------------------------------------------------------------------
(* Specification of the credential store under two connections.             *)

Init ==
    /\ users = <<>>
    /\ watchlist = {}
    /\ sqlite_sequence = 0
    /\ writer = NoConn
    /\ conn = [c \in Connections |-> IdleConn]
    /\ session = [s \in Sessions |-> FirstRun]
    /\ message = ""
    /\ passes = <<CompletePass(FirstRun, FirstRun, <<>>)>>

NextCred ==
    \E c \in Connections :
        \/ \E u \in Usernames, p \in Passwords : register_user_call(c, u, p)
        \/ register_user_execute(c)
        \/ register_user_commit(c)
        \/ register_user_except(c)
        \/ \E u \in Usernames, p \in Passwords : authenticate_user_call(c, u, p)
        \/ authenticate_user_select(c)

SpecCred == Init /\ [][NextCred]_vars

----------------------------------------------------------------------------
(* Specification of the watchlist store under two connections.              *)

NextWatch ==
    \E c \in Connections :
        \/ \E a \in AddInputs : add_to_watchlist_call(c, a[1], a[2])
        \/ add_to_watchlist_execute(c)
        \/ add_to_watchlist_commit(c)
        \/ add_to_watchlist_except(c)
        \/ \E k \in Pairs : remove_from_watchlist_call(c, k[1], k[2])
        \/ remove_from_watchlist_execute(c)
        \/ remove_from_watchlist_commit(c)
        \/ \E u \in Usernames : get_watchlist_call(c, u)
        \/ get_watchlist_select(c)

SpecWatch == Init /\ [][NextWatch]_vars

----------------------------------------------------------------------------
(* Specification of the application: the script runs of one browser        *)
(* session, with every input.                                               *)

Next ==
    \E s \in {"s1"} :
        \/ watchlist_button(s)
        \/ sign_out(s)
        \/ register_button(s)
        \/ sign_in_button(s)
        \/ \E k \in RegisterInputs : create_account(s, k[1], k[2])
        \/ \E k \in LoginInputs : login(s, k[1], k[2])
        \/ \E m \in MovieIds : remove_button(s, m)
        \/ \E a \in CatalogAnswers : show_recommendations(s, a[1], a[2], a[3])
        \/ \E idx \in 1..DisplayColumns : add_button(s, idx)

Spec == Init /\ [][Next]_vars

----------------------------------------------------------------------------
(* Properties of the stores.                                                *)

HasUser(rows, username) == \E i \in 1..Len(rows) : rows[i].username = username
UserRows(rows, username) == {i \in 1..Len(rows) : rows[i].username = username}
PairRows(rows, username, movie_id) ==
    {r \in rows : r.username = username /\ r.movie_id = movie_id}
\* c's call of op returns in this step
Returns(c, op) ==
    conn[c].op = op /\ conn[c].pc \in {"called", "executed", "raised"}
                    /\ conn'[c].pc = "done"
\* c has returned from op, and the call repeated c's previous call, which had
\* returned true, and no other connection has ever made a call
ReturnedFromRepeat(c, op) ==
    /\ conn[c].pc = "done" /\ conn[c].op = op /\ conn[c].repeat
    /\ conn[Other(c)].pc = "idle"
ListedMovies(result, movie_id) ==
    {i \in 1..Len(result) : result[i][1] = movie_id}

AddContract(c) ==
    Returns(c, "add") =>
        LET k == conn[c]
            had == PairRows(watchlist, k.username, k.movie_id)
        IN  /\ conn'[c].ret = (had = {})
            /\ had # {} => /\ watchlist' = watchlist
                           /\ sqlite_sequence' = sqlite_sequence
            /\ had = {} =>
                 \E r \in watchlist' :
                    /\ r \notin watchlist
                    /\ watchlist' = watchlist \cup {r}
                    /\ <<r.username, r.movie_id, r.title, r.year, r.poster_url>>
                         = <<k.username, k.movie_id, k.title, k.year, k.poster_url>>
            /\ Cardinality(ListedMovies(SelectWatchlist(watchlist', k.username),
                                        k.movie_id)) = 1
OneRowPerPair ==
    \A r, q \in watchlist :
        (r.username = q.username /\ r.movie_id = q.movie_id) => r = q
AddTwice ==
    \A c \in Connections : ReturnedFromRepeat(c, "add") => ~conn[c].ret

\* C1: add_to_watchlist(u, m, ...) returns true and creates one row with the
\* given fields when (u, m) has no row; it returns false and leaves every
\* stored row as it was when (u, m) has a row.  So there is never more than
\* one row per (username, movie_id), the movie is listed exactly once after
\* either outcome, and the same add made twice in a row returns true, false.
C1_AddIsUniquePerPair ==
    /\ [](OneRowPerPair /\ AddTwice)
    /\ [][\A c \in Connections : AddContract(c)]_vars

C1_Witness ==
    /\ ReturnedFromRepeat("c1", "add")
    /\ ~conn["c1"].ret
    /\ Cardinality(PairRows(watchlist, conn["c1"].username, conn["c1"].movie_id)) = 1

RemoveContract(c) ==
    Returns(c, "remove") =>
        LET k == conn[c]
            had == PairRows(watchlist, k.username, k.movie_id)
        IN  /\ conn'[c].ret = (had # {})
            /\ watchlist' = watchlist \ had
            /\ PairRows(watchlist', k.username, k.movie_id) = {}
            /\ had = {} => watchlist' = watchlist
            /\ UNCHANGED <<users, sqlite_sequence>>
RemoveTwice ==
    \A c \in Connections : ReturnedFromRepeat(c, "remove") => ~conn[c].ret

\* C2: remove_from_watchlist(u, m) returns true exactly when (u, m) had a row,
\* which the call deleted (and no other row); with no such row it returns
\* false and the watchlist is as before.  The same remove made twice in a
\* row, the first returning true, returns false the second time.
C2_RemoveReportsDeletion ==
    /\ []RemoveTwice
    /\ [][\A c \in Connections : RemoveContract(c)]_vars

C2_Witness ==
    /\ ReturnedFromRepeat("c1", "remove")
    /\ ~conn["c1"].ret
    /\ sqlite_sequence > 0

ListContract(c) ==
    Returns(c, "list") =>
        LET res == conn'[c].result
            mine == {r \in watchlist : r.username = conn[c].username}
        IN  /\ Len(res) = Cardinality(mine)
            /\ \A i \in 1..Len(res) :
                 \E r \in mine :
                    /\ res[i] = <<r.movie_id, r.title, r.year, r.poster_url>>
                    /\ Cardinality({q \in mine : q.id > r.id}) = i - 1
            /\ UNCHANGED <<users, watchlist, sqlite_sequence>>
\* a row that appears has an id above every id given out before
IdsNeverReused ==
    /\ sqlite_sequence' >= sqlite_sequence
    /\ \A r \in watchlist' \ watchlist :
          /\ r.id > sqlite_sequence
          /\ \A q \in watchlist : r.id > q.id

\* C3: get_watchlist(u) returns exactly the rows stored for u, none of
\* another user, most recently added first (descending id), and the empty
\* sequence when u has none; a row's id is larger than every id given out
\* before it, so a movie removed and added again is listed first.
C3_ListNewestFirst ==
    [][IdsNeverReused /\ \A c \in Connections : ListContract(c)]_vars

C3_Witness ==
    /\ conn["c1"].pc = "done" /\ conn["c1"].op = "list"
    /\ conn["c1"].username = "alice"
    /\ [i \in 1..Len(conn["c1"].result) |-> conn["c1"].result[i][1]] = <<3, 2, 1>>
    /\ {<<r.id, r.movie_id>> : r \in {q \in watchlist : q.username = "alice"}}
          = {<<1, 1>>, <<2, 2>>, <<3, 3>>}

\* C6: two add_to_watchlist calls for the same pair, in progress together
\* while the pair has no row, do not both succeed: one returns true, the
\* other false, and the pair has exactly one row.
C6_ConcurrentAddOnce ==
    \A c \in Connections :
        LET d == Other(c)
        IN  (/\ conn[c].pc = "done" /\ conn[c].op = "add" /\ conn[c].race
             /\ conn[d].pc = "done" /\ conn[d].op = "add" /\ conn[d].race)
            => /\ conn[c].ret # conn[d].ret
               /\ Cardinality(PairRows(watchlist, conn[c].username,
                                       conn[c].movie_id)) = 1

C6_Witness ==
    /\ conn["c1"].pc = "done" /\ conn["c1"].op = "add" /\ conn["c1"].race
    /\ conn["c2"].pc = "done" /\ conn["c2"].op = "add" /\ conn["c2"].race
    /\ ~conn["c1"].ret /\ conn["c2"].ret

----------------------------------------------------------------------------
(* Properties of the credential store.                                      *)

RegisterContract(c) ==
    Returns(c, "register") =>
        LET k == conn[c]
            had == HasUser(users, k.username)
        IN  /\ conn'[c].ret = ~had
            /\ had => users' = users
            /\ ~had => users' = users \o
                          <<[username |-> k.username, password |-> k.password]>>
            /\ Cardinality(UserRows(users', k.username)) = 1
            /\ UNCHANGED <<watchlist, sqlite_sequence>>
RegisterTwice ==
    \A c \in Connections : ReturnedFromRepeat(c, "register") => ~conn[c].ret
OneRowPerUsername ==
    \A u \in Usernames : Cardinality(UserRows(users, u)) <= 1

\* C4: the same username registered twice in a row: the first register_user
\* returns true and creates the record, the second returns false and changes
\* nothing, so one record exists for the username and it holds the first
\* call's password.
C4_RegisterTwice ==
    /\ [](OneRowPerUsername /\ RegisterTwice)
    /\ [][\A c \in Connections : RegisterContract(c)]_vars

C4_Witness ==
    /\ ReturnedFromRepeat("c1", "register")
    /\ ~conn["c1"].ret
    /\ Cardinality(UserRows(users, conn["c1"].username)) = 1

\* C5: two register_user calls for the same username, in progress together
\* while the username has no record: one returns true, the other false, and
\* one record exists for the username.
C5_ConcurrentRegisterOnce ==
    \A c \in Connections :
        LET d == Other(c)
        IN  (/\ conn[c].pc = "done" /\ conn[c].op = "register" /\ conn[c].race
             /\ conn[d].pc = "done" /\ conn[d].op = "register" /\ conn[d].race)
            => /\ conn[c].ret # conn[d].ret
               /\ Cardinality(UserRows(users, conn[c].username)) = 1

C5_Witness ==
    /\ conn["c1"].pc = "done" /\ conn["c1"].op = "register" /\ conn["c1"].race
    /\ conn["c2"].pc = "done" /\ conn["c2"].op = "register" /\ conn["c2"].race
    /\ ~conn["c1"].ret /\ conn["c2"].ret
    /\ Len(users) = 1

AuthenticateContract(c) ==
    Returns(c, "authenticate") =>
        /\ conn'[c].ret =
              (\E i \in 1..Len(users) :
                  users[i] = [username |-> conn[c].username,
                              password |-> conn[c].password])
        /\ UNCHANGED <<users, watchlist, sqlite_sequence>>

\* C7: authenticate_user(u, p) returns true exactly when a record with
\* username u and password p is stored (so false for a stored u with another
\* password and for an unknown u), and it leaves the credential store as it
\* was.
C7_AuthenticateExactMatch ==
    [][\A c \in Connections : AuthenticateContract(c)]_vars

\* c1 registered bob and then failed to authenticate as bob
C7_Witness ==
    /\ conn["c1"].pc = "done" /\ conn["c1"].op = "authenticate"
    /\ conn["c1"].username = "bob" /\ ~conn["c1"].ret
    /\ conn["c2"].pc = "idle"
    /\ HasUser(users, "bob")

----------------------------------------------------------------------------
(* Properties of the application.                                           *)

NoRecord(rows, username, password) ==
    \A i \in 1..Len(rows) :
        rows[i] # [username |-> username, password |-> password]
\* the table had username never been registered
WithoutUser(rows, username) ==
    SelectSeq(rows, LAMBDA r : r.username # username)
SameLoginOutcomeUnregistered ==
    \A s \in Sessions, k \in LoginInputs :
        NoRecord(users, k[1], k[2]) =>
            login_outcome(users, ShowLoginByDefault(session[s]), k[1], k[2])
              = login_outcome(WithoutUser(users, k[1]),
                              ShowLoginByDefault(session[s]), k[1], k[2])
FailedLoginStep ==
    \A s \in Sessions, k \in LoginInputs :
        (login(s, k[1], k[2]) /\ NoRecord(users, k[1], k[2])) =>
            /\ message' = "Invalid credentials"
            /\ session' = session
            /\ ~session'[s].logged_in
            /\ UNCHANGED <<users, watchlist, sqlite_sequence>>

\* C8: a sign-in that fails gives the same result whether or not the username
\* is registered: with no record (u, p), the login run returns false, reports
\* 'Invalid credentials' and leaves the session state as it was, and this
\* outcome equals the outcome against the table with u's record taken out.
C8_FailedLoginHidesUsername ==
    /\ []SameLoginOutcomeUnregistered
    /\ [][FailedLoginStep]_vars

\* both usernames are registered and the latest run was a login that failed
C8_Witness ==
    /\ message = "Invalid credentials"
    /\ \A u \in Usernames : HasUser(users, u)
    /\ ~session["s1"].logged_in

RecommendationsDiscarded(ss) ==
    /\ ss.similar_movies = <<>>
    /\ \A f \in {"posters", "names", "descriptions"} :
          f \in DOMAIN ss => ss[f] = <<>>

\* C9: a sign-out clears logged_in and username and discards the cached
\* recommendation fields (similar_movies, posters, names, descriptions).
C9_SignOutDiscardsRecommendations ==
    [][\A s \in Sessions :
          sign_out(s) => /\ ~session'[s].logged_in
                         /\ session'[s].username = None
                         /\ RecommendationsDiscarded(session'[s])]_vars

PairChange(u, m) ==
    LET before == PairRows(watchlist, u, m)
        after == PairRows(watchlist', u, m)
    IN  before # after =>
          \/ /\ before = {} /\ Cardinality(after) = 1
             /\ message' = "Added to watchlist!"
             /\ \E s \in Sessions, idx \in 1..DisplayColumns :
                   /\ add_button(s, idx)
                   /\ session[s].username = u
                   /\ session[s].similar_movies[idx].id = m
          \/ /\ Cardinality(before) = 1 /\ after = {}
             /\ \E s \in Sessions :
                   remove_button(s, m) /\ session[s].username = u

\* C10: a (username, movie_id) pair has no row or one row, and its row
\* appears only by a successful add of that pair and disappears only by a
\* successful remove of that pair; every other script run (another pair's
\* add or remove, a failed add, the watchlist view, registration, sign-in,
\* sign-out, recommendations) leaves the pair's row as it was.
C10_PairChangesOnlyByItsAddRemove ==
    /\ []OneRowPerPair
    /\ [][\A u \in Usernames, m \in MovieIds : PairChange(u, m)]_vars

\* the add of the edited entry of movie 1 failed and the stored row keeps the
\* title it was added with
C10_Witness ==
    /\ message = "Movie already in watchlist!"
    /\ session["s1"].similar_movies[1] = FightClubEdited
    /\ \A r \in watchlist : r.movie_id = 1
    /\ \E r \in watchlist :
          r.username = session["s1"].username /\ r.title = "Fight Club"

----------------------------------------------------------------------------
(* Properties of the catalog client and of the pass over the script.        *)

\* requests.get raised, or the response is not a success
Failed(response) == Raises(response) \/ response.status_code # 200
\* the answers with every failed call replaced by a call that found nothing
NothingFound(a) ==
    <<IF Failed(a[1]) THEN SearchNone ELSE a[1],
      IF Failed(a[2]) THEN NoSimilar ELSE a[2],
      IF a[3] = "unreachable" THEN "down" ELSE a[3]>>

\* C11: every failure of a catalog call (a response that is not a success,
\* or an exception of the transport) in search, poster or similar is
\* surfaced as an empty list or an absent value and never as a propagated
\* error: the run of a signed-in session with a failed call reports no
\* exception and leaves the session state, the message and the page that
\* the same run leaves when the call finds nothing.
C11_CatalogFailureSurfacedAsEmpty ==
    \A s \in Sessions, a \in CatalogAnswers :
        LET ss == ShowLoginByDefault(session[s])
            r == show_recommendations_outcome(ss, a[1], a[2], a[3])
            n == NothingFound(a)
        IN  ss.logged_in =>
              /\ r.msg # "ConnectionError"
              /\ \A i \in 1..Len(r.passes) :
                    "ConnectionError" \notin r.passes[i].shown
              /\ r = show_recommendations_outcome(ss, n[1], n[2], n[3])

LoginStep(s, k) ==
    login(s, k[1], k[2]) =>
        IF ~NoRecord(users, k[1], k[2])
        THEN /\ session'[s].logged_in
             /\ session'[s].username = k[1]
             /\ ~session'[s].show_login
        ELSE /\ session'[s].logged_in = session[s].logged_in
             /\ session'[s].username = session[s].username
             /\ session'[s].show_login = session[s].show_login

\* C12: a login run with credentials that match a stored record leaves
\* logged_in true, username equal to the username typed and show_login
\* false; a login run with credentials that match no record leaves
\* logged_in, username and show_login as they were.
C12_SignInOutcome ==
    [][\A s \in Sessions, k \in LoginInputs : LoginStep(s, k)]_vars

\* bob has just signed in: the login pass was stopped by the rerun
C12_Witness ==
    /\ Len(passes) = 2
    /\ ~passes[1].logged_in /\ "Login Form" \in passes[1].shown
    /\ passes[2].logged_in /\ passes[2].username = "bob"
    /\ session["s1"].logged_in /\ session["s1"].username = "bob"
    /\ ~session["s1"].show_login

\* C13: every pass over the script that starts with the session not logged
\* in draws the login form or the registration form (or both) and draws
\* neither the watchlist nor the search box nor the recommendations,
\* whatever show_login, show_register and show_watchlist hold, the pass
\* that follows a sign-out included.
C13_SignedOutPassShowsOnlyForms ==
    \A i \in 1..Len(passes) :
        ~passes[i].logged_in =>
            /\ passes[i].shown \cap {"Register Form", "Login Form"} # {}
            /\ passes[i].shown \cap {"Your Watchlist", "Movie Search",
                                     "Recommendations"} = {}

\* the pass after a sign-out, of a session that had its watchlist open and
\* recommendations on the page
C13_Witness ==
    /\ Len(passes) = 2
    /\ passes[1].logged_in /\ ~passes[2].logged_in
    /\ session["s1"].show_watchlist
    /\ session["s1"].similar_movies # <<>>
    /\ passes[2].shown = {"Login Form", "Please register or sign in"}

\* entry i of names, posters and descriptions is taken from similar_movies[i]
SameMovie(ss, i) ==
    LET movie == ss.similar_movies[i]
    IN  /\ ss.names[i] = movie.title
        /\ ss.descriptions[i] = (IF "overview" \in DOMAIN movie
                                 THEN movie.overview
                                 ELSE "No description available")
        /\ ss.posters[i] \in {fetch_poster(PosterResponse(net, movie.id)) :
                                 net \in {"up", "down"}}
WholeBatch(ss) ==
    ss.similar_movies # <<>> =>
        /\ {"names", "posters", "descriptions"} \subseteq DOMAIN ss
        /\ Len(ss.similar_movies) <= 5
        /\ Len(ss.names) = Len(ss.similar_movies)
        /\ Len(ss.posters) = Len(ss.similar_movies)
        /\ Len(ss.descriptions) = Len(ss.similar_movies)
        /\ \A i \in 1..Len(ss.similar_movies) : SameMovie(ss, i)
Batch(ss) ==
    [f \in {"names", "posters", "descriptions", "similar_movies"} |->
        IF f \in DOMAIN ss THEN ss[f] ELSE <<>>]
BatchReplacedWhole(s) ==
    Batch(session'[s]) # Batch(session[s]) =>
        \E a \in CatalogAnswers :
            /\ show_recommendations(s, a[1], a[2], a[3])
            /\ ~Raises(a[1]) /\ ~recommend_raises(a[2], a[3])
            /\ Batch(session'[s]) = recommend(a[2], a[3])

\* C14: whenever similar_movies is not empty, similar_movies, names, posters
\* and descriptions have one length, at most 5, and entry i of each is about
\* the movie similar_movies[i]; a run changes any of the four only by
\* setting all four to the result of one recommend call.
C14_BatchIsParallel ==
    /\ [](\A s \in Sessions : WholeBatch(session[s]))
    /\ [][\A s \in Sessions : BatchReplacedWhole(s)]_vars

\* six similar movies were answered and five are kept; the third has a
\* poster and the fourth has none and the default description
C14_Witness ==
    /\ Len(session["s1"].similar_movies) = 5
    /\ Len(session["s1"].names) = 5
    /\ session["s1"].posters[3] # None
    /\ session["s1"].posters[4] = None
    /\ session["s1"].descriptions[4] = "No description available"

----------------------------------------------------------------------------
(* Specification of the account forms: the runs of one browser session's   *)
(* header buttons, registration form and login form, the forms submitted    *)
(* with every text, the empty one included.                                 *)

\* st.text_input("Username") / st.text_input("Password"): what can be typed
TypedCredentials == (Usernames \cup {""}) \X Passwords

NextAccounts ==
    \E s \in {"s1"} :
        \/ register_button(s)
        \/ sign_in_button(s)
        \/ \E k \in TypedCredentials : create_account(s, k[1], k[2])
        \/ \E k \in TypedCredentials : login(s, k[1], k[2])
        \/ sign_out(s)

SpecAccounts == Init /\ [][NextAccounts]_vars

NoEmptyUsername == \A i \in 1..Len(users) : users[i].username # ""
EmptyUsernameRefused ==
    \A s \in Sessions, p \in Passwords :
        create_account(s, "", p) =>
            /\ users' = users
            /\ message' # "Account created! You can now login."

\* C15: no record of the users table has an empty username, and a
\* registration form submitted with an empty username creates no record.
C15_NoEmptyUsername ==
    /\ []NoEmptyUsername
    /\ [][EmptyUsernameRefused]_vars

----------------------------------------------------------------------------
(* Specification of the application with two browser sessions: the script  *)
(* runs of either session, interleaved, with the right passwords and one    *)
(* catalog answer of one movie.                                             *)

SessionLogins == Usernames \X {"secret"}
\* /movie/{id}/similar answering one movie
OneSimilar == [status_code |-> 200, results |-> <<FightClub>>]
SessionAnswers == {<<SearchFound, OneSimilar, "up">>}

NextSessions ==
    \E s \in Sessions :
        \/ watchlist_button(s)
        \/ sign_out(s)
        \/ register_button(s)
        \/ \E k \in RegisterInputs : create_account(s, k[1], k[2])
        \/ \E k \in SessionLogins : login(s, k[1], k[2])
        \/ \E m \in MovieIds : remove_button(s, m)
        \/ \E a \in SessionAnswers : show_recommendations(s, a[1], a[2], a[3])
        \/ \E idx \in 1..DisplayColumns : add_button(s, idx)

SpecSessions == Init /\ [][NextSessions]_vars

RowsOfRegisteredUsers == \A r \in watchlist : HasUser(users, r.username)
\* a row appears by the add run of a session signed in under its username
RowAddedBySignedIn ==
    \A r \in watchlist' \ watchlist :
        \E s \in Sessions, idx \in 1..DisplayColumns :
            /\ add_button(s, idx)
            /\ session[s].logged_in /\ session[s].username = r.username
            /\ HasUser(users, r.username)
\* a session is signed in under a username since a login run of its own
\* that found the record
SignedInByLogin(s) ==
    session'[s].logged_in =>
        \/ session[s].logged_in /\ session'[s].username = session[s].username
        \/ \E k \in LoginInputs :
              /\ login(s, k[1], k[2])
              /\ ~NoRecord(users, k[1], k[2])
              /\ session'[s].username = k[1]

\* C16: in every state reached by the runs of the script (registration,
\* sign-in, recommendations, add, remove, sign-out) in two sessions, the
\* username of every watchlist row is the username of a stored user record,
\* and the row was added by a session that was signed in under that
\* username by a login of its own that matched the record.
C16_RowsBelongToSignedInUsers ==
    /\ []RowsOfRegisteredUsers
    /\ [][RowAddedBySignedIn /\ \A s \in Sessions : SignedInByLogin(s)]_vars

\* alice and bob each have a row, added from different sessions
C16_Witness ==
    /\ \E r \in watchlist : r.username = "alice"
    /\ \E r \in watchlist : r.username = "bob"
    /\ session["s1"].username = "alice" /\ session["s2"].username = "bob"
    /\ message = "Added to watchlist!"

----------------------------------------------------------------------------
(* Properties of stored records over time.                                  *)

\* every stored record is a record of the table after the step
RecordsKept ==
    \A i \in 1..Len(users) : \E j \in 1..Len(users') : users'[j] = users[i]
\* a register call that returns true has its record stored; a register call
\* for a stored username returns false; an authenticate call for a stored
\* record returns true
StoredForGood(c) ==
    LET u == conn[c].username
        p == conn[c].password
    IN  /\ (Returns(c, "register") /\ conn'[c].ret) => ~NoRecord(users', u, p)
        /\ (Returns(c, "register") /\ HasUser(users, u)) =>
              ~conn'[c].ret /\ users' = users
        /\ (Returns(c, "authenticate") /\ ~NoRecord(users, u, p)) =>
              conn'[c].ret
RecordsAnswer ==
    \A i \in 1..Len(users) :
        /\ authenticate_user(users, users[i].username, users[i].password)
        /\ \A p \in Passwords :
              register_user(users, users[i].username, p)
                = [ret |-> FALSE, users |-> users]

\* C17: user records are never updated or deleted: once register_user(u, p)
\* has returned true the record (u, p) is in the table, and every record of
\* the table is in it unchanged after every later step; so from then on
\* authenticate_user(u, p) returns true and register_user(u, any password)
\* returns false and stores nothing.
C17_RecordsAreForGood ==
    /\ []RecordsAnswer
    /\ [][RecordsKept /\ \A c \in Connections : StoredForGood(c)]_vars

\* with alice and bob stored, one connection has authenticated alice and
\* the other has been refused a registration of alice
C17_Witness ==
    /\ Len(users) = 2
    /\ conn["c1"].pc = "done" /\ conn["c1"].op = "authenticate"
    /\ conn["c1"].username = "alice" /\ conn["c1"].ret
    /\ conn["c2"].pc = "done" /\ conn["c2"].op = "register"
    /\ conn["c2"].username = "alice" /\ ~conn["c2"].ret

----------------------------------------------------------------------------
(* Properties of the signed-in session.                                     *)

LoggedInIffUsername ==
    /\ \A s \in Sessions :
          session[s].logged_in <=> session[s].username # None
    /\ \A i \in 1..Len(passes) :
          passes[i].logged_in <=> passes[i].username # None

\* C18: at the start of every pass over the script, logged_in is true
\* exactly when username is not None; and a session is logged in under a
\* username only from a login run of that session that found the record of
\* that username, until its next sign-out.
C18_LoggedInIffUsername ==
    /\ []LoggedInIffUsername
    /\ [][\A s \in Sessions :
             /\ SignedInByLogin(s)
             /\ sign_out(s) => session'[s].username = None]_vars

\* alice has signed in after a sign-out of the session: the recommendations
\* of the earlier sign-in are still in the session
C18_Witness ==
    /\ Len(passes) = 2
    /\ ~passes[1].logged_in /\ passes[1].username = None
    /\ passes[2].logged_in /\ passes[2].username = "alice"
    /\ session["s1"].username = "alice"
    /\ session["s1"].similar_movies # <<>>

\* every store call of the latest run was made in a pass that started
\* logged in, with the username of the session that made the run
CallsAsSessionUser ==
    \A i \in 1..Len(passes) :
        \A j \in 1..Len(passes[i].calls) :
            LET call == passes[i].calls[j]
            IN  /\ passes[i].logged_in
                /\ call.username # None
                /\ call.username = passes[i].username
                /\ \E s \in Sessions :
                      session[s].logged_in /\ session[s].username = call.username
RowsOf(rows, u) == {r \in rows : r.username = u}
\* u's rows change only in an add or remove run of a session signed in as u
ChangedByOwner(u) ==
    RowsOf(watchlist', u) # RowsOf(watchlist, u) =>
        \E s \in Sessions :
            /\ session[s].logged_in /\ session[s].username = u
            /\ \/ \E idx \in 1..DisplayColumns : add_button(s, idx)
               \/ \E m \in MovieIds : remove_button(s, m)
SignInOutKeepRows(s) ==
    (sign_out(s) \/ \E k \in LoginInputs : login(s, k[1], k[2])) =>
        watchlist' = watchlist

\* C19: every get_watchlist, add_to_watchlist and remove_from_watchlist call
\* of the script is made while the session is logged in and with that
\* session's own username; so the rows of user u change only in a run of a
\* session signed in as u, and not in a sign-out, a sign-in or a run of a
\* session signed in as another user.
C19_WatchlistTouchedByOwnerOnly ==
    /\ []CallsAsSessionUser
    /\ [][/\ \A u \in Usernames : ChangedByOwner(u)
          /\ \A s \in Sessions : SignInOutKeepRows(s)]_vars

\* bob, in the second session, has removed movie 1 from his watchlist while
\* alice, signed in in the first, keeps her row of the same movie
C19_Witness ==
    /\ Len(passes) = 2
    /\ passes[1].calls = <<Call("get_watchlist", "bob"),
                           Call("remove_from_watchlist", "bob")>>
    /\ session["s1"].username = "alice" /\ session["s2"].username = "bob"
    /\ RowsOf(watchlist, "bob") = {}
    /\ \E r \in watchlist : r.username = "alice" /\ r.movie_id = 1

====
